---- MODULE Spec2Model ----
(***************************************************************************)
(* Model of herd_ticket_linear.adapter.LinearTicketAdapter: a synchronous  *)
(* client that turns ticket operations into GraphQL round trips.           *)
(*                                                                         *)
(* Strings the code inspects character by character (status tokens, state  *)
(* identifiers, status names) are sequences of one-character strings.      *)
(* Strings the code only compares or copies are TLA+ strings.  Strings the *)
(* code builds by concatenation are sequences of chunks.                   *)
(* A dict is a function; a missing key is a key outside its DOMAIN.        *)
(* Python's None in a string-valued position is the value NoneV.           *)
(*                                                                         *)
(* The remote system is the environment: every response is chosen          *)
(* nondeterministically.  A mutation takes effect on the remote system     *)
(* exactly when the response to it carries no errors array and reports     *)
(* success; the variable effects records those mutations of the current    *)
(* call.  Timestamps of an issue are not modelled.                         *)
(***************************************************************************)
EXTENDS Integers, Sequences, FiniteSets, TLC

VARIABLES
    state_mapping,    \* self.state_mapping, fixed at construction
    team_id,          \* self.team_id, fixed at construction
    op,               \* the public operation in progress or last finished
    args,             \* its arguments
    pc,               \* position of the operation: the next round trip
    requests,         \* requests sent by the current call, in order
    effects,          \* mutations of the current call the remote applied
    lastResp,         \* response to the last request of the current call
    locals,           \* local variables of the operation's frames
    result            \* what the call returned or raised

vars == <<state_mapping, team_id, op, args, pc, requests, effects,
          lastResp, locals, result>>

-----------------------------------------------------------------------------
(* Bounds *)

\* most nodes in one search response
MaxNodes == 2

\* most entries in a top-level errors array
MaxErrors == 2

\* largest priority number given to _parse_ticket on its own
MaxPriority == 5

-----------------------------------------------------------------------------
(* Values *)

NoneV == "<None>"

NL == "\n"

Fill(c, n) == [i \in 1..n |-> c]

\* the repetition count of the pattern in _resolve_state_id
UuidLen == 36

\* the character class [0-9a-f-] of the pattern in _resolve_state_id
UuidChars == {"0", "1", "2", "3", "4", "5", "6", "7", "8", "9",
              "a", "b", "c", "d", "e", "f", "-"}

\* hex digits the class [0-9a-f-] leaves out
UpperHex == {"A", "B", "C", "D", "E", "F"}

HexDigits == (UuidChars \ {"-"}) \cup UpperHex

StBlocked == <<"b", "l", "o", "c", "k", "e", "d">>
StInProgress == <<"i", "n", "_", "p", "r", "o", "g", "r", "e", "s", "s">>
StBacklog == <<"B", "a", "c", "k", "l", "o", "g">>
StUnknown == <<"u", "n", "k", "n", "o", "w", "n">>
StEmpty == <<>>

\* state identifiers as Linear issues them: 8-4-4-4-12 lower-case hex
UuidA == Fill("7", 8) \o <<"-">> \o Fill("b", 4) \o <<"-">> \o Fill("4", 4)
         \o <<"-">> \o Fill("8", 4) \o <<"-">> \o Fill("f", 12)
UuidB == Fill("4", 8) \o <<"-">> \o Fill("c", 4) \o <<"-">> \o Fill("d", 4)
         \o <<"-">> \o Fill("9", 4) \o <<"-">> \o Fill("0", 12)
\* the same shape written with upper-case hex digits
UuidUpper == Fill("7", 8) \o <<"-">> \o Fill("B", 4) \o <<"-">> \o Fill("4", 4)
         \o <<"-">> \o Fill("8", 4) \o <<"-">> \o Fill("F", 12)
\* one character short, one character long, and 36 characters plus newline
UuidShort == Fill("a", UuidLen - 1)
UuidLong == Fill("a", UuidLen + 1)
UuidNewline == UuidA \o <<NL>>
\* 36 characters of which one is outside the hex digits and the hyphen
UuidBadChar == Fill("a", UuidLen - 1) \o <<"g">>
UuidHyphens == Fill("-", UuidLen)

-----------------------------------------------------------------------------
(* Results of calls: a returned value or a raised exception *)

Ok(v) == [status |-> "ok", value |-> v]

Fail(kind, detail) == [status |-> "error", error |-> kind, detail |-> detail]

NoResult == [status |-> "none"]

IsOk(r) == r.status = "ok"

IsFail(r) == r.status = "error"

\* dict.get(key, default)
DictGet(d, k, default) == IF k \in DOMAIN d THEN d[k] ELSE default

-----------------------------------------------------------------------------
(* _resolve_state_id *)

\* re.match(r"^[0-9a-f-]{36}$", s): 36 characters of the class, then the end
\* of the string; Python's $ also matches just before one trailing newline
UuidPattern(s) ==
    /\ Len(s) \in {UuidLen, UuidLen + 1}
    /\ \A i \in 1..UuidLen : s[i] \in UuidChars
    /\ Len(s) = UuidLen + 1 => s[UuidLen + 1] = NL

ResolveStateId(mapping, status) ==
    IF UuidPattern(status)
    THEN Ok(status)
    ELSE IF status \in DOMAIN mapping
         THEN Ok(mapping[status])
         ELSE Fail("ValueError", status)

-----------------------------------------------------------------------------
(* _parse_ticket *)

\* the priorities in the order of their severity
PriorityMapMonotonic(p) ==
    CASE p = 0 -> "NONE"
      [] p = 1 -> "LOW"
      [] p = 2 -> "NORMAL"
      [] p = 3 -> "HIGH"
      [] p = 4 -> "URGENT"
      [] OTHER -> "NONE"

PriorityMap(p) ==
    CASE p = 0 -> "NONE"
      [] p = 1 -> "URGENT"
      [] p = 2 -> "HIGH"
      [] p = 3 -> "NORMAL"
      [] p = 4 -> "LOW"
      [] OTHER -> "NONE"

\* a null or missing project or assignee is a key outside the DOMAIN
NestedName(issue, k) ==
    IF k \in DOMAIN issue THEN DictGet(issue[k], "name", NoneV) ELSE NoneV

LabelNames(issue) ==
    LET nodes == DictGet(DictGet(issue, "labels", <<>>), "nodes", <<>>)
    IN  [i \in 1..Len(nodes) |-> nodes[i].name]

ParseTicket(issue) ==
    [id |-> DictGet(issue, "identifier", DictGet(issue, "id", "")),
     title |-> DictGet(issue, "title", ""),
     description |-> DictGet(issue, "description", NoneV),
     status |-> DictGet(DictGet(issue, "state", <<>>), "name", <<>>),
     priority |-> PriorityMap(DictGet(issue, "priority", 0)),
     project |-> NestedName(issue, "project"),
     assignee |-> NestedName(issue, "assignee"),
     labels |-> LabelNames(issue)]

-----------------------------------------------------------------------------
(* The environment: what the remote system can answer *)

TicketIds == {"DBC-1", "DBC-12"}

\* issues a search can return; a field the server left out is a missing key
NodeFull ==
    [id |-> "uuid-1", identifier |-> "DBC-1", title |-> "Test ticket",
     description |-> "Test description",
     state |-> [id |-> "s1", name |-> StBacklog], priority |-> 2,
     project |-> [id |-> "p1", name |-> "Q1 Goals"],
     assignee |-> [id |-> "a1", name |-> "John Doe"],
     labels |-> [nodes |-> <<[id |-> "l1", name |-> "bug"],
                            [id |-> "l2", name |-> "backend"]>>]]

NodeBlocked ==
    [id |-> "uuid-2", identifier |-> "DBC-1", title |-> "Other",
     state |-> [id |-> "s2", name |-> StBlocked], priority |-> 99,
     labels |-> [nodes |-> <<>>]]

NodeSimilar ==
    [id |-> "uuid-3", identifier |-> "DBC-12", title |-> "Similar",
     state |-> [id |-> "s3", name |-> StInProgress], priority |-> 4,
     assignee |-> [id |-> "a1", name |-> "John Doe"]]

NodeNoId == [identifier |-> "DBC-1", title |-> "No id"]

NodeNoIdentifier == [id |-> "uuid-5", title |-> "No identifier", priority |-> 1]

NodePool == {NodeFull, NodeBlocked, NodeSimilar, NodeNoId, NodeNoIdentifier}

SeqsUpTo(S, n) == UNION {[1..k -> S] : k \in 0..n}

NodeLists == SeqsUpTo(NodePool, MaxNodes)

ErrorMessages == {"bad field", "rate limited"}

\* an entry of an errors array without a message field
ErrorWithoutMessage == [code |-> "E42"]

ErrorLists ==
    SeqsUpTo({[message |-> m] : m \in ErrorMessages} \cup {ErrorWithoutMessage},
             MaxErrors)

\* the field of data that holds a search result: the name the queries ask
\* for, and the name the test suite's canned responses use
SearchKeys == {"issueSearch", "searchIssues"}

HttpFailure == [transport |-> "http", code |-> 401, text |-> "Unauthorized"]

NetworkFailure == [transport |-> "network", reason |-> "timed out"]

Answer(body) == [transport |-> "ok", body |-> body]

SearchBody(key, nodes) ==
    [data |-> [k \in {key} |-> [nodes |-> nodes]]]

ErrorBodies(data) ==
    {[errors |-> es] : es \in ErrorLists}
    \cup {[errors |-> es, data |-> data] : es \in ErrorLists \ {<<>>}}

SearchResponses ==
    {Answer(SearchBody(k, ns)) : k \in SearchKeys, ns \in NodeLists}
    \cup {Answer(b) : b \in ErrorBodies(SearchBody("issueSearch", <<NodeFull>>).data)}
    \cup {Answer([data |-> [issueSearch |-> <<>>]]), Answer(<<>>)}
    \cup {HttpFailure, NetworkFailure}

\* payloads of a mutation's result field
MutationPayloads ==
    {[success |-> TRUE, issue |-> [id |-> "uuid-9", identifier |-> "DBC-9"]],
     [success |-> TRUE, issue |-> [id |-> "uuid-9"]],
     [success |-> TRUE],
     [success |-> FALSE],
     <<>>}

MutationBody(field, payload) == [data |-> [k \in {field} |-> payload]]

MutationResponses(field) ==
    {Answer(MutationBody(field, p)) : p \in MutationPayloads}
    \cup {Answer(b) : b \in ErrorBodies(MutationBody(field, [success |-> FALSE]).data)}
    \cup {Answer(<<>>)}
    \cup {HttpFailure, NetworkFailure}

-----------------------------------------------------------------------------
(* _graphql_request *)

RECURSIVE JoinWith(_, _)
\* sep.join(parts), as the sequence of its chunks
JoinWith(sep, parts) ==
    IF Len(parts) = 0 THEN <<>>
    ELSE IF Len(parts) = 1 THEN <<parts[1]>>
    ELSE <<parts[1], sep>> \o JoinWith(sep, Tail(parts))

\* str(e) of an entry of an errors array
PyStr(e) ==
    IF e = ErrorWithoutMessage THEN "{'code': 'E42'}" ELSE "{...}"

\* the message of the first entry only
ErrorMessageFirstOnly(errors) ==
    IF errors = <<>> THEN <<>>
    ELSE <<DictGet(errors[1], "message", PyStr(errors[1]))>>

ErrorMessage(errors) ==
    JoinWith("; ", [i \in 1..Len(errors) |->
                        DictGet(errors[i], "message", PyStr(errors[i]))])

\* a network failure swallowed: the caller gets an empty result
GraphqlRequestSwallow(resp) ==
    IF resp.transport = "http"
    THEN Fail("HTTPError", <<resp.code, resp.text>>)
    ELSE IF resp.transport = "network"
    THEN Ok(<<>>)
    ELSE IF "errors" \in DOMAIN resp.body
    THEN Fail("GraphQLError", ErrorMessage(resp.body.errors))
    ELSE Ok(resp.body)

\* the outcome of one request, given what the transport delivers
GraphqlRequest(resp) ==
    IF resp.transport = "http"
    THEN Fail("HTTPError", <<resp.code, resp.text>>)
    ELSE IF resp.transport = "network"
    THEN Fail("NetworkError", resp.reason)
    ELSE IF "errors" \in DOMAIN resp.body
    THEN Fail("GraphQLError", ErrorMessage(resp.body.errors))
    ELSE Ok(resp.body)

\* the remote system applied the mutation this response answers
Applied(resp, field) ==
    /\ resp.transport = "ok"
    /\ "errors" \notin DOMAIN resp.body
    /\ DictGet(DictGet(DictGet(resp.body, "data", <<>>), field, <<>>),
               "success", FALSE) = TRUE

\* result.get("data", {}).get("issueSearch", {}).get("nodes", [])
SearchNodes(body) ==
    DictGet(DictGet(DictGet(body, "data", <<>>), "issueSearch", <<>>),
            "nodes", <<>>)

\* result.get("data", {}).get(field, {})
MutationData(body, field) ==
    DictGet(DictGet(body, "data", <<>>), field, <<>>)

-----------------------------------------------------------------------------
(* The exact-match loops of get, update and add_comment *)

Matches(node, ticket_id) ==
    "identifier" \in DOMAIN node /\ node.identifier = ticket_id

MatchIndexes(nodes, ticket_id) ==
    {i \in 1..Len(nodes) : Matches(nodes[i], ticket_id)}

Min(S) == CHOOSE m \in S : \A k \in S : m <= k

Max(S) == CHOOSE m \in S : \A k \in S : m >= k

\* the loop without its return or break: the last match wins
LastMatch(nodes, ticket_id) ==
    nodes[Max(MatchIndexes(nodes, ticket_id))]

\* for node in nodes: if node.get("identifier") == ticket_id: ...
FirstMatch(nodes, ticket_id) ==
    nodes[Min(MatchIndexes(nodes, ticket_id))]

\* get, after its search request
GetResult(ticket_id, resp) ==
    LET ex == GraphqlRequest(resp)
    IN  IF IsFail(ex) THEN ex
        ELSE LET nodes == SearchNodes(ex.value)
             IN  IF MatchIndexes(nodes, ticket_id) = {}
                 THEN Fail("NotFound", ticket_id)
                 ELSE Ok(ParseTicket(FirstMatch(nodes, ticket_id)))

\* update and add_comment, after their search request: the internal id of
\* the first exact match; no match, a match without id or with an empty id
\* are all "not issue_id"
FindIssueId(ticket_id, resp) ==
    LET ex == GraphqlRequest(resp)
    IN  IF IsFail(ex) THEN ex
        ELSE LET nodes == SearchNodes(ex.value)
             IN  IF MatchIndexes(nodes, ticket_id) = {}
                 THEN Fail("NotFound", ticket_id)
                 ELSE LET id == DictGet(FirstMatch(nodes, ticket_id), "id", "")
                      IN  IF id = "" THEN Fail("NotFound", ticket_id)
                          ELSE Ok(id)

-----------------------------------------------------------------------------
(* Requests *)

SearchRequest(term) == [query |-> "IssueSearch", variables |-> [query |-> term]]

UpdateRequest(issue_id, issue_input) ==
    [query |-> "UpdateIssue",
     variables |-> [id |-> issue_id, input |-> issue_input]]

CommentRequest(issue_id, body) ==
    [query |-> "CreateComment",
     variables |-> [input |-> [issueId |-> issue_id, body |-> body]]]

CreateRequest(issue_input) ==
    [query |-> "CreateIssue", variables |-> [input |-> issue_input]]

-----------------------------------------------------------------------------
(* Arguments the callers pass *)

\* status tokens given to transition
TransitionTokens == {StBlocked, StInProgress, StUnknown, UuidB, UuidNewline}

\* status tokens given to _resolve_state_id
ResolveTokens ==
    TransitionTokens
    \cup {StEmpty, StBacklog, UuidA, UuidUpper, UuidShort, UuidLong,
          UuidBadChar, UuidHyphens}

\* state mappings an adapter is built with; the empty one is state_mapping=None
NoMapping == <<>>

\* logical names, and entries whose key is itself shaped like an identifier
WideMapping ==
    (StInProgress :> UuidA) @@ (StBlocked :> UuidB) @@ (UuidB :> UuidA)
    @@ (UuidUpper :> UuidA) @@ (UuidNewline :> UuidB) @@ (UuidShort :> UuidB)

\* the adapters the model builds: LinearTicketAdapter(api_key) and one with
\* both a default team and a state mapping
Adapters ==
    {[state_mapping |-> NoMapping, team_id |-> ""],
     [state_mapping |-> WideMapping, team_id |-> "team-default"]}

\* note=None, note="" and a note with text
Notes == {NoneV, "", "go"}

\* blocked_by=None, blocked_by=[] and a list of blocking tickets
NoBlockers == [given |-> FALSE, ids |-> <<>>]

BlockedBys ==
    {NoBlockers, [given |-> TRUE, ids |-> <<>>],
     [given |-> TRUE, ids |-> <<"DBC-12">>]}

\* "if note is not None" in place of "if note"
NoteNotNone(note) == note # NoneV

\* Python truth of a str | None and of a list | None
NoteTruthy(note) == note # NoneV /\ note # ""

ListTruthy(l) == l.given /\ l.ids # <<>>

\* keyword fields given to update
UpdateFieldSets ==
    {<<>>,
     [title |-> "X", priority |-> 1],
     [labels |-> <<"l1", "l2">>, state_id |-> UuidA],
     [description |-> NoneV, assignee_id |-> "user-1", project_id |-> "proj-1"],
     [title |-> "Y", estimate |-> 3],
     [title |-> "Z", description |-> "d", priority |-> 0, labels |-> <<>>,
      state_id |-> UuidB, assignee_id |-> "user-2", project_id |-> "proj-2"]}

-----------------------------------------------------------------------------
(* update: the field table *)

RemoteName ==
    [title |-> "title", description |-> "description",
     priority |-> "priority", labels |-> "labelIds", state_id |-> "stateId",
     assignee_id |-> "assigneeId", project_id |-> "projectId"]

\* the logical field a remote name stands for
LogicalName(remote) == CHOOSE k \in DOMAIN RemoteName : RemoteName[k] = remote

\* the fields under their logical names
UpdateInputUnmapped(fields) ==
    [k \in DOMAIN fields \cap DOMAIN RemoteName |-> fields[k]]

UpdateInput(fields) ==
    [r \in {RemoteName[k] : k \in DOMAIN fields \cap DOMAIN RemoteName}
        |-> fields[LogicalName(r)]]

-----------------------------------------------------------------------------
(* transition: the event type *)

\* the test of the previous status first, and without its second half
EventTypeUnblockedFirst(to_status, previous_status, blocked_by) ==
    IF previous_status = StBlocked
    THEN "unblocked"
    ELSE IF to_status = StBlocked \/ ListTruthy(blocked_by)
    THEN "blocked"
    ELSE "status_changed"

\* the chain without the test of blocked_by
EventTypeNoBlockers(to_status, previous_status, blocked_by) ==
    IF to_status = StBlocked
    THEN "blocked"
    ELSE IF previous_status = StBlocked /\ to_status # StBlocked
    THEN "unblocked"
    ELSE "status_changed"

EventType(to_status, previous_status, blocked_by) ==
    IF to_status = StBlocked \/ ListTruthy(blocked_by)
    THEN "blocked"
    ELSE IF previous_status = StBlocked /\ to_status # StBlocked
    THEN "unblocked"
    ELSE "status_changed"

\* the two statuses in each other's place
TransitionResultSwapped(a, previous_status) ==
    [ticket_id |-> a.ticket_id,
     previous_status |-> a.to_status,
     new_status |-> previous_status,
     event_type |-> EventType(a.to_status, previous_status, a.blocked_by),
     elapsed_minutes |-> NoneV]

TransitionResult(a, previous_status) ==
    [ticket_id |-> a.ticket_id,
     previous_status |-> previous_status,
     new_status |-> a.to_status,
     event_type |-> EventType(a.to_status, previous_status, a.blocked_by),
     elapsed_minutes |-> NoneV]

-----------------------------------------------------------------------------
(* State *)

NoResponse == [transport |-> "none"]

NoLocals ==
    [previous_status |-> <<>>, state_id |-> <<>>, issue_id |-> "",
     issue_input |-> <<>>]

Idle == pc = "idle"

Init ==
    /\ \E a \in Adapters :
        /\ state_mapping = a.state_mapping
        /\ team_id = a.team_id
    /\ op = "none"
    /\ args = <<>>
    /\ pc = "idle"
    /\ requests = <<>>
    /\ effects = <<>>
    /\ lastResp = NoResponse
    /\ locals = NoLocals
    /\ result = NoResult

\* a public operation is entered: a fresh frame, nothing sent yet
Enter(o, a, first, loc) ==
    /\ Idle
    /\ op' = o
    /\ args' = a
    /\ pc' = first
    /\ requests' = <<>>
    /\ effects' = <<>>
    /\ lastResp' = NoResponse
    /\ locals' = loc
    /\ result' = NoResult
    /\ UNCHANGED <<state_mapping, team_id>>

\* the operation returns or raises
Finish(r) ==
    /\ pc' = "done"
    /\ result' = r

\* one round trip: the request goes out and the response comes back
RoundTrip(req, resp) ==
    /\ requests' = Append(requests, req)
    /\ lastResp' = resp
    /\ UNCHANGED <<state_mapping, team_id, op, args>>

-----------------------------------------------------------------------------
(* get *)

CallGet ==
    \E t \in TicketIds :
        Enter("get", [ticket_id |-> t], "get_search", NoLocals)

\* update(ticket_id, **fields) up to its search request
CallUpdate ==
    \E t \in TicketIds, f \in UpdateFieldSets :
        Enter("update", [ticket_id |-> t, fields |-> f], "upd_search",
              [NoLocals EXCEPT !.issue_input = UpdateInput(f)])

CallTransition ==
    \E t \in TicketIds, s \in TransitionTokens, n \in Notes,
       b \in BlockedBys :
        Enter("transition",
              [ticket_id |-> t, to_status |-> s, note |-> n, blocked_by |-> b],
              "get_search", NoLocals)

CallAddComment ==
    \E t \in TicketIds, b \in {"", "hello"} :
        Enter("add_comment", [ticket_id |-> t, body |-> b], "cmt_search",
              NoLocals)

\* the search of get; in transition, followed by the status resolution and
\* the construction of update's input
GetSearch ==
    /\ pc = "get_search"
    /\ \E resp \in SearchResponses :
        LET r == GetResult(args.ticket_id, resp)
            rs == ResolveStateId(state_mapping, args.to_status)
        IN  /\ RoundTrip(SearchRequest(args.ticket_id), resp)
            /\ UNCHANGED effects
            /\ IF op = "get" \/ IsFail(r)
               THEN Finish(r) /\ UNCHANGED locals
               ELSE /\ IF IsFail(rs)
                       THEN /\ Finish(rs)
                            /\ locals' = [locals EXCEPT
                                   !.previous_status = r.value.status]
                       ELSE /\ pc' = "upd_search"
                            /\ result' = result
                            /\ locals' = [locals EXCEPT
                                   !.previous_status = r.value.status,
                                   !.state_id = rs.value,
                                   !.issue_input =
                                       UpdateInput([state_id |-> rs.value])]

\* the search of update
UpdSearch ==
    /\ pc = "upd_search"
    /\ \E resp \in SearchResponses :
        LET r == FindIssueId(args.ticket_id, resp)
        IN  /\ RoundTrip(SearchRequest(args.ticket_id), resp)
            /\ UNCHANGED effects
            /\ IF IsFail(r)
               THEN Finish(r) /\ UNCHANGED locals
               ELSE /\ pc' = "upd_mutate"
                    /\ result' = result
                    /\ locals' = [locals EXCEPT !.issue_id = r.value]

\* the success test inverted
MutationResultInverted(resp, field, kind, ticket_id) ==
    LET ex == GraphqlRequest(resp)
    IN  IF IsFail(ex) THEN ex
        ELSE IF DictGet(MutationData(ex.value, field), "success", FALSE) = TRUE
        THEN Fail("OperationFailed", <<kind, ticket_id>>)
        ELSE Ok(NoneV)

\* what a mutation's response means to update, add_comment
MutationResult(resp, field, kind, ticket_id) ==
    LET ex == GraphqlRequest(resp)
    IN  IF IsFail(ex) THEN ex
        ELSE IF DictGet(MutationData(ex.value, field), "success", FALSE) = TRUE
        THEN Ok(NoneV)
        ELSE Fail("OperationFailed", <<kind, ticket_id>>)

\* the mutation of update; in transition, followed by the decision to comment
UpdMutate ==
    /\ pc = "upd_mutate"
    /\ \E resp \in MutationResponses("issueUpdate") :
        LET req == UpdateRequest(locals.issue_id, locals.issue_input)
            r == MutationResult(resp, "issueUpdate", "update", args.ticket_id)
        IN  /\ RoundTrip(req, resp)
            /\ effects' = IF Applied(resp, "issueUpdate")
                          THEN Append(effects, req) ELSE effects
            /\ UNCHANGED locals
            /\ IF op = "update" \/ IsFail(r)
               THEN Finish(r)
               ELSE IF NoteTruthy(args.note)
               THEN pc' = "cmt_search" /\ result' = result
               ELSE Finish(Ok(TransitionResult(args, locals.previous_status)))

\* the ticket identifier sent as the body
CommentBodyTicket == args.ticket_id

\* the comment body: add_comment's argument, or transition's note
CommentBody == IF op = "transition" THEN args.note ELSE args.body

\* the search of add_comment
CmtSearch ==
    /\ pc = "cmt_search"
    /\ \E resp \in SearchResponses :
        LET r == FindIssueId(args.ticket_id, resp)
        IN  /\ RoundTrip(SearchRequest(args.ticket_id), resp)
            /\ UNCHANGED effects
            /\ IF IsFail(r)
               THEN Finish(r) /\ UNCHANGED locals
               ELSE /\ pc' = "cmt_mutate"
                    /\ result' = result
                    /\ locals' = [locals EXCEPT !.issue_id = r.value]

\* the mutation of add_comment; in transition, followed by the result
CmtMutate ==
    /\ pc = "cmt_mutate"
    /\ \E resp \in MutationResponses("commentCreate") :
        LET req == CommentRequest(locals.issue_id, CommentBody)
            r == MutationResult(resp, "commentCreate", "comment",
                                args.ticket_id)
        IN  /\ RoundTrip(req, resp)
            /\ effects' = IF Applied(resp, "commentCreate")
                          THEN Append(effects, req) ELSE effects
            /\ UNCHANGED locals
            /\ IF op = "add_comment" \/ IsFail(r)
               THEN Finish(r)
               ELSE Finish(Ok(TransitionResult(args, locals.previous_status)))

-----------------------------------------------------------------------------
(* create *)

\* one optional named argument: left out, or given one of vals
Optional(name, vals) == {<<>>} \cup {(name :> v) : v \in vals}

\* named arguments of create besides title; a key left out is None
CreateArgSets ==
    {d @@ pr @@ l @@ t @@ pj :
        d \in Optional("description", {"", "desc"}),
        pr \in Optional("priority", {0, 2}),
        l \in Optional("labels", {<<>>, <<"l1", "l2">>}),
        t \in Optional("team_id", {"", "team-x"}),
        pj \in Optional("project_id", {"proj-1"})}

\* **kwargs of create: the entries with a value, and the names given as None
CreateKwargs ==
    {[values |-> <<>>, nulls |-> {}],
     [values |-> [stateId |-> UuidA], nulls |-> {}],
     [values |-> [estimate |-> 3], nulls |-> {"assigneeId"}]}

\* d[k] = v
Assign(d, k, v) == (k :> v) @@ d

Given(given, k) == k \in DOMAIN given

\* "if priority:" in place of "if priority is not None"
CreateInputTruthyPriority(title, given, kwargs, default_team) ==
    LET i0 == Assign(Assign(<<>>, "teamId",
                  IF Given(given, "team_id") /\ given.team_id # ""
                  THEN given.team_id ELSE default_team), "title", title)
        i1 == IF Given(given, "description") /\ given.description # ""
              THEN Assign(i0, "description", given.description) ELSE i0
        i2 == IF Given(given, "priority") /\ given.priority # 0
              THEN Assign(i1, "priority", given.priority) ELSE i1
        i3 == IF Given(given, "project_id") /\ given.project_id # ""
              THEN Assign(i2, "projectId", given.project_id) ELSE i2
        i4 == IF Given(given, "labels") /\ given.labels # <<>>
              THEN Assign(i3, "labelIds", given.labels) ELSE i3
        kept == {k \in DOMAIN kwargs.values \cup kwargs.nulls :
                    k \notin kwargs.nulls}
    IN  [k \in kept |-> kwargs.values[k]] @@ i4

\* issue_input as create builds it: the two fixed entries, the chain of
\* ifs, then the loop over kwargs that skips the None values
CreateInput(title, given, kwargs, default_team) ==
    LET i0 == Assign(Assign(<<>>, "teamId",
                  IF Given(given, "team_id") /\ given.team_id # ""
                  THEN given.team_id ELSE default_team), "title", title)
        i1 == IF Given(given, "description") /\ given.description # ""
              THEN Assign(i0, "description", given.description) ELSE i0
        i2 == IF Given(given, "priority")
              THEN Assign(i1, "priority", given.priority) ELSE i1
        i3 == IF Given(given, "project_id") /\ given.project_id # ""
              THEN Assign(i2, "projectId", given.project_id) ELSE i2
        i4 == IF Given(given, "labels") /\ given.labels # <<>>
              THEN Assign(i3, "labelIds", given.labels) ELSE i3
        kept == {k \in DOMAIN kwargs.values \cup kwargs.nulls :
                    k \notin kwargs.nulls}
    IN  [k \in kept |-> kwargs.values[k]] @@ i4

CallCreate ==
    \E g \in CreateArgSets, kw \in CreateKwargs :
        Enter("create", [title |-> "New ticket", given |-> g, kwargs |-> kw],
              "create_mutate",
              [NoLocals EXCEPT
                  !.issue_input = CreateInput("New ticket", g, kw, team_id)])

\* create without its test of success
CreateResultUnchecked(resp) ==
    LET ex == GraphqlRequest(resp)
    IN  IF IsFail(ex) THEN ex
        ELSE LET data == MutationData(ex.value, "issueCreate")
                 issue == DictGet(data, "issue", <<>>)
             IN  Ok(DictGet(issue, "identifier", DictGet(issue, "id", "")))

\* what the response to the creation means to create
CreateResult(resp) ==
    LET ex == GraphqlRequest(resp)
    IN  IF IsFail(ex) THEN ex
        ELSE LET data == MutationData(ex.value, "issueCreate")
                 issue == DictGet(data, "issue", <<>>)
             IN  IF DictGet(data, "success", FALSE) = TRUE
                 THEN Ok(DictGet(issue, "identifier", DictGet(issue, "id", "")))
                 ELSE Fail("OperationFailed", <<"create", "">>)

CreateMutate ==
    /\ pc = "create_mutate"
    /\ \E resp \in MutationResponses("issueCreate") :
        LET req == CreateRequest(locals.issue_input)
        IN  /\ RoundTrip(req, resp)
            /\ effects' = IF Applied(resp, "issueCreate")
                          THEN Append(effects, req) ELSE effects
            /\ UNCHANGED locals
            /\ Finish(CreateResult(resp))

-----------------------------------------------------------------------------
(* list_tickets *)

\* keyword filters given to list_tickets
FilterSets ==
    {s @@ a @@ pj @@ q @@ x :
        s \in Optional("status", {"in_progress"}),
        a \in Optional("assignee", {"john"}),
        pj \in Optional("project", {"Q1"}),
        q \in Optional("query", {"login bug"}),
        x \in Optional("limit", {"10"})}

\* the free-text query ahead of the key:value parts
QueryPartsQueryFirst(filters) ==
    (IF Given(filters, "query") THEN << <<filters.query>> >> ELSE <<>>)
    \o (IF Given(filters, "status")
        THEN << <<"status:", filters.status>> >> ELSE <<>>)
    \o (IF Given(filters, "assignee")
        THEN << <<"assignee:", filters.assignee>> >> ELSE <<>>)
    \o (IF Given(filters, "project")
        THEN << <<"project:", filters.project>> >> ELSE <<>>)

\* query_parts; each part is the sequence of the chunks of one string
QueryParts(filters) ==
    (IF Given(filters, "status")
        THEN << <<"status:", filters.status>> >> ELSE <<>>)
    \o (IF Given(filters, "assignee")
        THEN << <<"assignee:", filters.assignee>> >> ELSE <<>>)
    \o (IF Given(filters, "project")
        THEN << <<"project:", filters.project>> >> ELSE <<>>)
    \o (IF Given(filters, "query") THEN << <<filters.query>> >> ELSE <<>>)

RECURSIVE Flatten(_)
Flatten(ss) == IF ss = <<>> THEN <<>> ELSE Head(ss) \o Flatten(Tail(ss))

\* " ".join(query_parts) if query_parts else "*"
SearchQuery(filters) ==
    IF QueryParts(filters) = <<>>
    THEN <<"*">>
    ELSE Flatten(JoinWith(<<" ">>, QueryParts(filters)))

\* list_tickets, after its search request
ListResult(resp) ==
    LET ex == GraphqlRequest(resp)
    IN  IF IsFail(ex) THEN ex
        ELSE LET nodes == SearchNodes(ex.value)
             IN  Ok([i \in 1..Len(nodes) |-> ParseTicket(nodes[i])])

CallList ==
    \E f \in FilterSets :
        Enter("list_tickets", [filters |-> f], "list_search", NoLocals)

ListSearch ==
    /\ pc = "list_search"
    /\ \E resp \in SearchResponses :
        /\ RoundTrip(SearchRequest(SearchQuery(args.filters)), resp)
        /\ UNCHANGED <<effects, locals>>
        /\ Finish(ListResult(resp))

\* issues given to _parse_ticket on its own: every priority number of the
\* range, and no priority
ParseIssues ==
    {[id |-> "test-id", identifier |-> "DBC-1", title |-> "Test",
      priority |-> p] : p \in -1..MaxPriority}
    \cup {[id |-> "test-id", identifier |-> "DBC-1", title |-> "Test"]}

\* _parse_ticket called on its own
CallParse ==
    \E issue \in ParseIssues :
        /\ Idle
        /\ op' = "parse"
        /\ args' = [issue |-> issue]
        /\ pc' = "done"
        /\ requests' = <<>>
        /\ effects' = <<>>
        /\ lastResp' = NoResponse
        /\ locals' = NoLocals
        /\ result' = Ok(ParseTicket(issue))
        /\ UNCHANGED <<state_mapping, team_id>>

\* _resolve_state_id called on its own
CallResolve ==
    \E s \in ResolveTokens :
        /\ Idle
        /\ op' = "resolve"
        /\ args' = [status |-> s]
        /\ pc' = "done"
        /\ requests' = <<>>
        /\ effects' = <<>>
        /\ lastResp' = NoResponse
        /\ locals' = NoLocals
        /\ result' = ResolveStateId(state_mapping, s)
        /\ UNCHANGED <<state_mapping, team_id>>

\* the caller takes the outcome; the adapter keeps nothing of the call
Return ==
    /\ pc = "done"
    /\ pc' = "idle"
    /\ op' = "none"
    /\ args' = <<>>
    /\ requests' = <<>>
    /\ effects' = <<>>
    /\ lastResp' = NoResponse
    /\ locals' = NoLocals
    /\ result' = NoResult
    /\ UNCHANGED <<state_mapping, team_id>>

Next ==
    \/ CallGet
    \/ CallUpdate
    \/ CallTransition
    \/ CallAddComment
    \/ CallResolve
    \/ CallParse
    \/ CallCreate
    \/ CallList
    \/ GetSearch
    \/ UpdSearch
    \/ UpdMutate
    \/ CmtSearch
    \/ CmtMutate
    \/ CreateMutate
    \/ ListSearch
    \/ Return

Spec == Init /\ [][Next]_vars

-----------------------------------------------------------------------------
(* Vocabulary of the properties *)

Finished(o) == op = o /\ pc = "done"

Returned(o) == Finished(o) /\ IsOk(result)

Raised(o) == Finished(o) /\ IsFail(result)

PublicOps ==
    {"get", "create", "update", "transition", "add_comment", "list_tickets"}

\* the nodes a response delivers under the field the queries ask for
RequestedNodes(resp) ==
    IF /\ resp.transport = "ok"
       /\ "errors" \notin DOMAIN resp.body
       /\ "data" \in DOMAIN resp.body
       /\ "issueSearch" \in DOMAIN resp.body.data
       /\ "nodes" \in DOMAIN resp.body.data.issueSearch
    THEN resp.body.data.issueSearch.nodes
    ELSE <<>>

ExactAt(nodes, id) ==
    {i \in 1..Len(nodes) :
        "identifier" \in DOMAIN nodes[i] /\ nodes[i].identifier = id}

LeastExact(nodes, id) ==
    CHOOSE i \in ExactAt(nodes, id) : \A j \in ExactAt(nodes, id) : i <= j

QueryNames(reqs) == [i \in 1..Len(reqs) |-> reqs[i].query]

IsPrefix(s, t) == Len(s) <= Len(t) /\ \A i \in 1..Len(s) : s[i] = t[i]

-----------------------------------------------------------------------------
(* Properties *)

\* C1: in a transition given no blocking-ticket list, the event type is
\* "blocked" if the target token is "blocked", otherwise "unblocked" if the
\* fetched previous status is "blocked", otherwise "status_changed".
C1_EventTypeOrder ==
    (Returned("transition") /\ ~args.blocked_by.given) =>
        result.value.event_type =
            IF args.to_status = StBlocked THEN "blocked"
            ELSE IF result.value.previous_status = StBlocked THEN "unblocked"
            ELSE "status_changed"

\* a transition to "blocked" from "blocked", without a blocking-ticket list
C1_Witness ==
    /\ Returned("transition")
    /\ ~args.blocked_by.given
    /\ args.to_status = StBlocked
    /\ result.value.previous_status = StBlocked
    /\ result.value.event_type = "blocked"

\* C2 as stated: whenever a blocking-ticket list is supplied, empty or not,
\* the event type is "blocked".
C2_AnySuppliedListBlocks ==
    (Returned("transition") /\ args.blocked_by.given) =>
        result.value.event_type = "blocked"

\* C2 amended: a non-empty blocking-ticket list makes the event type
\* "blocked" whatever the target and the previous status are; an empty list
\* decides nothing, the event type is then the one of a call without a list.
C2_NonEmptyListBlocks ==
    (Returned("transition") /\ args.blocked_by.given) =>
        IF args.blocked_by.ids # <<>>
        THEN result.value.event_type = "blocked"
        ELSE result.value.event_type =
                IF args.to_status = StBlocked THEN "blocked"
                ELSE IF result.value.previous_status = StBlocked
                THEN "unblocked"
                ELSE "status_changed"

\* a transition out of "blocked" with a non-empty blocking-ticket list
C2_Witness ==
    /\ Returned("transition")
    /\ args.blocked_by.ids # <<>>
    /\ args.to_status # StBlocked
    /\ result.value.previous_status = StBlocked
    /\ result.value.event_type = "blocked"

\* C3 as stated: a transition issues at most three round trips, and at least
\* two when it has no note and succeeds.
C3_AtMostThreeRoundTrips ==
    Finished("transition") =>
        /\ Len(requests) <= 3
        /\ (IsOk(result) /\ args.note \in {NoneV, ""}) => Len(requests) >= 2

\* C3 amended: a transition issues at most five round trips, in the order
\* search (fetch), search, update, search, comment, one per step; without a
\* note (none or an empty one) at most three, and exactly three when it
\* succeeds; with a note exactly five when it succeeds.
C3_AtMostFiveRoundTrips ==
    op = "transition" =>
        /\ IsPrefix(QueryNames(requests),
                    <<"IssueSearch", "IssueSearch", "UpdateIssue",
                      "IssueSearch", "CreateComment">>)
        /\ args.note \in {NoneV, ""} => Len(requests) <= 3
        /\ Returned("transition") =>
               Len(requests) = IF args.note \in {NoneV, ""} THEN 3 ELSE 5

\* a transition with a note that went through all five round trips
C3_Witness ==
    /\ Returned("transition")
    /\ args.note = "go"
    /\ Len(requests) = 5

FailureOf(p, resp) ==
    IF resp.transport = "http" THEN "HTTPError"
    ELSE IF resp.transport = "network" THEN "NetworkError"
    ELSE IF "errors" \in DOMAIN resp.body THEN "GraphQLError"
    ELSE IF p \in {"get_search", "upd_search", "cmt_search"}
    THEN LET nodes == RequestedNodes(resp)
         IN  IF ExactAt(nodes, args.ticket_id) = {} THEN "NotFound"
             ELSE IF /\ p # "get_search"
                     /\ "id" \notin
                            DOMAIN nodes[LeastExact(nodes, args.ticket_id)]
             THEN "NotFound"
             ELSE IF /\ op = "transition"
                     /\ p = "get_search"
                     /\ IsFail(ResolveStateId(state_mapping, args.to_status))
             THEN "ValueError"
             ELSE "none"
    ELSE IF p \in {"upd_mutate", "cmt_mutate", "create_mutate"}
    THEN LET field == CASE p = "upd_mutate" -> "issueUpdate"
                        [] p = "cmt_mutate" -> "commentCreate"
                        [] OTHER -> "issueCreate"
         IN  IF /\ "data" \in DOMAIN resp.body
                /\ field \in DOMAIN resp.body.data
                /\ "success" \in DOMAIN resp.body.data[field]
                /\ resp.body.data[field].success
             THEN "none"
             ELSE "OperationFailed"
    ELSE "none"

\* C5: in every public operation the first failing step ends the call: the
\* call raises that failure, having sent exactly the requests up to the
\* failing one, and nothing is sent after it (no further step, no retry).
C5_FirstFailureAborts ==
    [][/\ (pc \notin {"idle", "done"} /\ FailureOf(pc, lastResp') # "none") =>
            /\ pc' = "done"
            /\ IsFail(result')
            /\ result'.error = FailureOf(pc, lastResp')
            /\ requests' = Append(requests, requests'[Len(requests')])
       /\ (pc = "done" /\ IsFail(result)) =>
            /\ pc' = "idle"
            /\ requests' = <<>>]_vars

\* an update whose mutation the server reported unsuccessful
C5_Witness ==
    /\ Raised("update")
    /\ result.error = "OperationFailed"
    /\ Len(requests) = 2

\* a status token of 36 characters, each a hex digit or a hyphen
UuidShaped(s) ==
    /\ Len(s) = UuidLen
    /\ \A i \in 1..Len(s) : s[i] \in HexDigits \cup {"-"}

\* C6: resolving a 36-character token of hex digits and hyphens returns the
\* token unchanged, whatever the state mapping contains.
C6_UuidShapedPassesThrough ==
    (Finished("resolve") /\ UuidShaped(args.status)) =>
        result = Ok(args.status)

\* C7: resolving a token that is not UUID-shaped returns what the state
\* mapping binds to it, and fails with an invalid-argument error naming the
\* token when the mapping has no entry for it.
C7_OthersGoThroughMapping ==
    (Finished("resolve") /\ ~UuidShaped(args.status)) =>
        IF args.status \in DOMAIN state_mapping
        THEN result = Ok(state_mapping[args.status])
        ELSE result = Fail("ValueError", args.status)

\* C8: get sends one search for the identifier and returns the parsed record
\* of the first node, in response order, whose identifier equals it; when
\* the response has no such node, get fails with not-found; a record it
\* returns is never built from a node with another identifier.
C8_GetFirstExactMatch ==
    (Finished("get") /\ lastResp.transport = "ok"
        /\ "errors" \notin DOMAIN lastResp.body) =>
        LET nodes == RequestedNodes(lastResp)
            id == args.ticket_id
        IN  /\ requests =
                <<[query |-> "IssueSearch", variables |-> [query |-> id]]>>
            /\ IF ExactAt(nodes, id) = {}
               THEN result = Fail("NotFound", id)
               ELSE /\ result = Ok(ParseTicket(nodes[LeastExact(nodes, id)]))
                    /\ result.value.id = id

\* get on a response with two exact matches, the first of which it returned
C8_Witness ==
    /\ Returned("get")
    /\ RequestedNodes(lastResp) = <<NodeFull, NodeBlocked>>
    /\ result.value.title = "Test ticket"
    /\ result.value.status = StBacklog

\* the nodes a response delivers under data.searchIssues.nodes
SearchIssuesNodes(resp) ==
    IF /\ resp.transport = "ok"
       /\ "errors" \notin DOMAIN resp.body
       /\ "data" \in DOMAIN resp.body
       /\ "searchIssues" \in DOMAIN resp.body.data
       /\ "nodes" \in DOMAIN resp.body.data.searchIssues
    THEN resp.body.data.searchIssues.nodes
    ELSE <<>>

\* C9: get, against a successful response that delivers its nodes under
\* data.searchIssues.nodes and has a node with the identifier asked for,
\* returns that node's record instead of failing with not-found.
C9_GetReadsSearchIssues ==
    (Finished("get") /\ ExactAt(SearchIssuesNodes(lastResp), args.ticket_id) # {}) =>
        LET nodes == SearchIssuesNodes(lastResp)
            node == nodes[LeastExact(nodes, args.ticket_id)]
        IN  /\ IsOk(result)
            /\ result.value.id = node.identifier
            /\ result.value.title = DictGet(node, "title", "")
            /\ result.value.labels = LabelNames(node)

\* the remote name of a recognized field of update
RemoteNameOf(k) ==
    CASE k = "title" -> "title"
      [] k = "description" -> "description"
      [] k = "priority" -> "priority"
      [] k = "labels" -> "labelIds"
      [] k = "state_id" -> "stateId"
      [] k = "assignee_id" -> "assigneeId"
      [] k = "project_id" -> "projectId"

Recognized ==
    {"title", "description", "priority", "labels", "state_id", "assignee_id",
     "project_id"}

\* C10: update sends one search for the identifier and then one update
\* mutation, addressed to the internal id of the first exact-match node,
\* whose input holds every supplied recognized field under its remote name
\* with the supplied value; when no node matches the identifier exactly,
\* update fails with not-found and the mutation is never sent.
C10_UpdateSearchThenMutate ==
    op = "update" =>
        LET id == args.ticket_id
            nodes == RequestedNodes(lastResp)
        IN  /\ IsPrefix(QueryNames(requests), <<"IssueSearch", "UpdateIssue">>)
            /\ Len(requests) >= 1 => requests[1].variables = [query |-> id]
            /\ (Len(requests) = 1 /\ pc = "upd_mutate") =>
                   /\ ExactAt(nodes, id) # {}
                   /\ locals.issue_id = nodes[LeastExact(nodes, id)].id
            /\ Len(requests) = 2 =>
                   /\ requests[2].variables.id = locals.issue_id
                   /\ \A k \in DOMAIN args.fields \cap Recognized :
                        /\ RemoteNameOf(k) \in DOMAIN requests[2].variables.input
                        /\ requests[2].variables.input[RemoteNameOf(k)]
                               = args.fields[k]
            /\ (Len(requests) = 1 /\ lastResp.transport = "ok"
                   /\ "errors" \notin DOMAIN lastResp.body
                   /\ ExactAt(nodes, id) = {}) =>
                   /\ pc = "done"
                   /\ result = Fail("NotFound", id)

\* an update of labels and state that sent its mutation and returned
C10_Witness ==
    /\ Returned("update")
    /\ Len(requests) = 2
    /\ requests[2].variables.id = "uuid-2"
    /\ "labelIds" \in DOMAIN requests[2].variables.input
    /\ "stateId" \in DOMAIN requests[2].variables.input

\* C11: named fields of create and update outside the recognized field
\* table are passed through, under the same name and with the same value,
\* into the input of the mutation that is sent.
C11_ExtraFieldsPassThrough ==
    /\ (op = "create" /\ Len(requests) = 1) =>
           \A k \in DOMAIN args.kwargs.values :
               /\ k \in DOMAIN requests[1].variables.input
               /\ requests[1].variables.input[k] = args.kwargs.values[k]
    /\ (op = "update" /\ Len(requests) = 2) =>
           \A k \in DOMAIN args.fields \ Recognized :
               /\ k \in DOMAIN requests[2].variables.input
               /\ requests[2].variables.input[k] = args.fields[k]

\* the optional inputs of create and the named argument each comes from
OptionalInputs ==
    [description |-> "description", priority |-> "priority",
     projectId |-> "project_id", labelIds |-> "labels"]

\* the team create is to use: the one given, else the adapter's default
ExpectedTeam ==
    IF "team_id" \in DOMAIN args.given /\ args.given.team_id # ""
    THEN args.given.team_id
    ELSE team_id

\* C12 as stated: create sends one creation mutation whose input holds the
\* title and the team, and each optional field if and only if the caller
\* supplied a value for it; on success it returns the short identifier.
C12_OptionalIffSupplied ==
    (op = "create" /\ Len(requests) >= 1) =>
        LET input == requests[1].variables.input
        IN  /\ QueryNames(requests) = <<"CreateIssue">>
            /\ input.title = args.title
            /\ input.teamId = ExpectedTeam
            /\ \A r \in DOMAIN OptionalInputs :
                   r \in DOMAIN input <=> OptionalInputs[r] \in DOMAIN args.given

\* a value create's tests take as absent: an empty text, an empty list
EmptyValue(name, v) ==
    IF name = "labels" THEN v = <<>>
    ELSE IF name = "priority" THEN FALSE
    ELSE v = ""

\* C12 amended: create sends one creation mutation whose input always holds
\* the title and the team (the given team unless none or an empty one was
\* given, then the adapter's default);
\* it holds the priority if and only if one was supplied (0 included), and
\* the description, the project and the label identifiers if and only if
\* a non-empty value was supplied; on a success response it returns the
\* created issue's short identifier, or its internal id when the response
\* has no short identifier, or "" when it has neither.
C12_OptionalIffNonEmpty ==
    (op = "create" /\ Len(requests) >= 1) =>
        LET input == requests[1].variables.input
            payload == lastResp.body.data.issueCreate
        IN  /\ QueryNames(requests) = <<"CreateIssue">>
            /\ input.title = args.title
            /\ input.teamId = ExpectedTeam
            /\ \A r \in DOMAIN OptionalInputs :
                LET name == OptionalInputs[r]
                IN  IF /\ name \in DOMAIN args.given
                       /\ ~EmptyValue(name, args.given[name])
                    THEN r \in DOMAIN input /\ input[r] = args.given[name]
                    ELSE r \notin DOMAIN input
            /\ IsOk(result) =>
                   /\ payload.success
                   /\ result.value =
                        IF "issue" \notin DOMAIN payload THEN ""
                        ELSE IF "identifier" \in DOMAIN payload.issue
                        THEN payload.issue.identifier
                        ELSE IF "id" \in DOMAIN payload.issue
                        THEN payload.issue.id
                        ELSE ""

\* a create with priority 0 and labels that returned the short identifier
C12_Witness ==
    /\ Returned("create")
    /\ result.value = "DBC-9"
    /\ "priority" \in DOMAIN args.given
    /\ args.given.priority = 0
    /\ requests[1].variables.input.priority = 0
    /\ "labelIds" \in DOMAIN requests[1].variables.input
    /\ "description" \in DOMAIN args.given
    /\ "description" \notin DOMAIN requests[1].variables.input

\* the server ran the mutation this response answers and did not report
\* success: no errors array, and success false or missing
Unsuccessful(resp, field) ==
    /\ resp.transport = "ok"
    /\ "errors" \notin DOMAIN resp.body
    /\ ~(/\ "data" \in DOMAIN resp.body
         /\ field \in DOMAIN resp.body.data
         /\ "success" \in DOMAIN resp.body.data[field]
         /\ resp.body.data[field].success)

\* C13: when the server ran a mutation and did not report success, the
\* operation that sent it fails with an operation-failed error: create
\* returns no identifier, update and add_comment do not return normally.
C13_UnsuccessfulMutationFails ==
    /\ (op = "create" /\ Len(requests) = 1
           /\ Unsuccessful(lastResp, "issueCreate")) =>
           (pc = "done" /\ IsFail(result) /\ result.error = "OperationFailed")
    /\ (op = "update" /\ Len(requests) = 2
           /\ Unsuccessful(lastResp, "issueUpdate")) =>
           (pc = "done" /\ IsFail(result) /\ result.error = "OperationFailed")
    /\ (op = "add_comment" /\ Len(requests) = 2
           /\ Unsuccessful(lastResp, "commentCreate")) =>
           (pc = "done" /\ IsFail(result) /\ result.error = "OperationFailed")

\* a create whose response has an issue and success false
C13_Witness ==
    /\ Raised("create")
    /\ result.error = "OperationFailed"
    /\ lastResp.transport = "ok"
    /\ "data" \in DOMAIN lastResp.body
    /\ lastResp.body.data.issueCreate = [success |-> FALSE]

\* the positions of the comment-creation mutations among the requests
CommentsAt == {i \in 1..Len(requests) : requests[i].query = "CreateComment"}

\* C14: a transition called with a note (one with text) sends a
\* comment-creation mutation whose body is the note, for the ticket's
\* internal id, and only after the update mutation of the same call has
\* succeeded; a transition without a note sends no comment-creation mutation.
C14_NoteBecomesCommentAfterUpdate ==
    op = "transition" =>
        /\ \A i \in CommentsAt :
            /\ i = 5
            /\ args.note \notin {NoneV, ""}
            /\ requests[i].variables.input.body = args.note
            /\ requests[i].variables.input.issueId = locals.issue_id
            /\ requests[3].query = "UpdateIssue"
            /\ effects # <<>> /\ effects[1] = requests[3]
        /\ (Len(requests) = 4 /\ pc = "cmt_mutate") =>
            LET nodes == RequestedNodes(lastResp)
            IN  locals.issue_id = nodes[LeastExact(nodes, args.ticket_id)].id
        /\ (Returned("transition") /\ args.note \notin {NoneV, ""}) =>
            CommentsAt = {5}
        /\ args.note \in {NoneV, ""} => CommentsAt = {}

\* a transition with the note "go" whose comment took effect
C14_Witness ==
    /\ Returned("transition")
    /\ args.note = "go"
    /\ Len(effects) = 2
    /\ effects[2].query = "CreateComment"
    /\ effects[2].variables.input.body = "go"

\* the status name of an issue as the server gave it, "" when it gave none
StatusNameOf(node) ==
    IF "state" \in DOMAIN node /\ "name" \in DOMAIN node.state
    THEN node.state.name
    ELSE <<>>

\* C15: a transition that succeeds returns the ticket identifier it was
\* given, as previous status the status name fetched before the update was
\* sent, as new status the target token as given, and no elapsed time; its
\* update carries the state identifier resolved from the token.
C15_TransitionResultFields ==
    /\ [](op = "transition" =>
            /\ (Len(requests) = 1 /\ pc = "upd_search") =>
                LET nodes == RequestedNodes(lastResp)
                IN  locals.previous_status =
                        StatusNameOf(nodes[LeastExact(nodes, args.ticket_id)])
            /\ Len(requests) >= 3 =>
                requests[3].variables.input =
                    [stateId |->
                        ResolveStateId(state_mapping, args.to_status).value]
            /\ Returned("transition") =>
                /\ result.value.ticket_id = args.ticket_id
                /\ result.value.previous_status = locals.previous_status
                /\ result.value.new_status = args.to_status
                /\ result.value.elapsed_minutes = NoneV)
    /\ [][(op = "transition" /\ Len(requests) >= 1 /\ pc # "done") =>
            locals'.previous_status = locals.previous_status]_vars

\* a transition to a mapped status that returned the fetched status name
C15_Witness ==
    /\ Returned("transition")
    /\ args.to_status = StInProgress
    /\ state_mapping = WideMapping
    /\ result.value.previous_status = StBacklog
    /\ result.value.new_status = StInProgress
    /\ requests[3].variables.input = [stateId |-> UuidA]

\* C19: a transition whose target token is neither UUID-shaped nor in the
\* state mapping fails with the invalid-argument error after the fetch round
\* trip only: no update and no comment mutation is sent and the remote
\* ticket is left as it was, also with a note or a blocking-ticket list.
C19_UnresolvableStopsAfterFetch ==
    (/\ op = "transition"
     /\ ~UuidShaped(args.to_status)
     /\ args.to_status \notin DOMAIN state_mapping) =>
        /\ Len(requests) <= 1
        /\ effects = <<>>
        /\ pc = "done" =>
               /\ IsFail(result)
               /\ ExactAt(RequestedNodes(lastResp), args.ticket_id) # {} =>
                      result = Fail("ValueError", args.to_status)

\* the priority of the record of an issue
PriorityOf(node) ==
    IF "priority" \in DOMAIN node /\ node.priority \in 1..4
    THEN <<"URGENT", "HIGH", "NORMAL", "LOW">>[node.priority]
    ELSE "NONE"

\* C16: the parser maps the priorities 0, 1, 2, 3, 4 to NONE, URGENT, HIGH,
\* NORMAL, LOW, and every other number and a missing priority to NONE; so
\* in every record that get and list_tickets return.
C16_PriorityMapping ==
    /\ Finished("parse") => result.value.priority = PriorityOf(args.issue)
    /\ Returned("get") =>
        LET nodes == RequestedNodes(lastResp)
        IN  result.value.priority =
                PriorityOf(nodes[LeastExact(nodes, args.ticket_id)])
    /\ Returned("list_tickets") =>
        LET nodes == RequestedNodes(lastResp)
        IN  /\ Len(result.value) = Len(nodes)
            /\ \A i \in 1..Len(nodes) :
                   result.value[i].priority = PriorityOf(nodes[i])

\* list_tickets returned records of the priorities 4 and 1, in that order
C16_Witness ==
    /\ Returned("list_tickets")
    /\ RequestedNodes(lastResp) = <<NodeSimilar, NodeNoIdentifier>>
    /\ result.value[1].priority = "LOW"
    /\ result.value[2].priority = "URGENT"

\* the recognized filters in the order of the search term
FilterOrder == <<"status", "assignee", "project", "query">>

\* the chunks a recognized filter contributes to the search term
FilterChunks(f, k) ==
    CASE k = "status" -> <<"status:", f[k]>>
      [] k = "assignee" -> <<"assignee:", f[k]>>
      [] k = "project" -> <<"project:", f[k]>>
      [] k = "query" -> <<f[k]>>

RECURSIVE TermFrom(_, _, _)
\* the search term of the filters from position i of the order on; first
\* tells that no filter has contributed yet
TermFrom(f, i, first) ==
    IF i > Len(FilterOrder) THEN <<>>
    ELSE IF FilterOrder[i] \notin DOMAIN f THEN TermFrom(f, i + 1, first)
    ELSE (IF first THEN <<>> ELSE <<" ">>)
         \o FilterChunks(f, FilterOrder[i]) \o TermFrom(f, i + 1, FALSE)

EntryText(e) == IF "message" \in DOMAIN e THEN e.message ELSE PyStr(e)

\* the texts of the entries with "; " between them
JoinedTexts(errors) ==
    [j \in 1..(IF Len(errors) = 0 THEN 0 ELSE 2 * Len(errors) - 1) |->
        IF j % 2 = 1 THEN EntryText(errors[(j + 1) \div 2]) ELSE "; "]

\* C18: whenever a response body carries a top-level errors array, the
\* request fails with a GraphQL error whose message is the messages of all
\* entries joined with "; " in array order, and the operation gets no data
\* of that response, also when the response carries data.
C18_ErrorsArrayFails ==
    (lastResp.transport = "ok" /\ "errors" \in DOMAIN lastResp.body) =>
        /\ pc = "done"
        /\ result = Fail("GraphQLError", JoinedTexts(lastResp.body.errors))

\* a search answered with data and two errors
C18_Witness ==
    /\ Raised("get")
    /\ result.error = "GraphQLError"
    /\ "data" \in DOMAIN lastResp.body
    /\ lastResp.body.errors =
           <<[message |-> "bad field"], [message |-> "rate limited"]>>
    /\ result.detail = <<"bad field", "; ", "rate limited">>

====
